---- MODULE Spec2Model ----
(***************************************************************************)
(* Living Dex Tracker (living_dex_tracker_pokeball_dex_react.jsx).         *)
(*                                                                         *)
(* Strings are sequences of one-character strings; the element "rsquo"     *)
(* stands for the single character U+2019 and "grave" for U+0060, which    *)
(* the module text cannot hold.  A JavaScript value is a record [t, n, e]: *)
(* t is its type tag ("num", "null", "bool", "arr", "obj"), n the number   *)
(* (or 0/1 for a boolean), e the elements of an array.  A Set is the       *)
(* sequence of its members in insertion order, without repetition.         *)
(***************************************************************************)
EXTENDS Integers, Sequences, FiniteSets, TLC

VARIABLES
    items,          \* App: useState([])       catalog store
    loading,        \* App: useState(true)
    selectedIndex,  \* App: useState(0)
    view,           \* App: useState("dex")
    caught,         \* App: useState(() => loadCaught())
    storage,        \* localStorage[LS_KEY]: [present, raw]
    thrown,         \* an exception escaped a handler
    listReq,        \* the bulk list request: "pending" or "done"
    panel,          \* the mounted DexSidePanel's state, or NoPanel
    effects,        \* runs of DexSidePanel's fetch effect still awaiting a response
    fetches,        \* runs of App's detail effect still awaiting fetchPokemon
    failedIds,      \* history: the ids whose fetchPokemon has rejected
    merged,         \* history: for each id, the number of responses merged into its item
    lastOp,         \* the handler that ran last, with its inputs
    input,          \* the argument of the pure function under test
    output          \* its result

vars == <<items, loading, selectedIndex, view, caught, storage, thrown,
          listReq, panel, effects, fetches, failedIds, merged,
          lastOp, input, output>>

\* the detail effect's runs and their history
detailVars == <<fetches, failedIds, merged>>

(***************************************************************************)
(* Bounds of the model.                                                    *)
(***************************************************************************)
MaxItems == 3
MaxInFlight == 2
MaxSetLen == 2
MaxRows == 2

Min(a, b) == IF a < b THEN a ELSE b
Max(a, b) == IF a > b THEN a ELSE b

Range(s) == {s[i] : i \in 1..Len(s)}

IsPrefixAt(p, s, i) ==
    /\ i + Len(p) - 1 <= Len(s)
    /\ \A k \in 1..Len(p) : s[i + k - 1] = p[k]

(***************************************************************************)
(* Characters and their UTF-16 code units.                                 *)
(***************************************************************************)
Ascii ==
    << " ", "!", "\"", "#", "$", "%", "&", "'", "(", ")", "*", "+", ",", "-", ".", "/",
       "0", "1", "2", "3", "4", "5", "6", "7", "8", "9", ":", ";", "<", "=", ">", "?",
       "@", "A", "B", "C", "D", "E", "F", "G", "H", "I", "J", "K", "L", "M", "N", "O",
       "P", "Q", "R", "S", "T", "U", "V", "W", "X", "Y", "Z", "[", "\\", "]", "^", "_",
       "grave", "a", "b", "c", "d", "e", "f", "g", "h", "i", "j", "k", "l", "m", "n", "o",
       "p", "q", "r", "s", "t", "u", "v", "w", "x", "y", "z", "{", "|", "}", "~" >>

CharSet == Range(Ascii) \cup {"rsquo"}

CodeOf == [c \in CharSet |->
              IF c = "rsquo" THEN 8217
              ELSE 31 + (CHOOSE i \in 1..Len(Ascii) : Ascii[i] = c)]

CharOfCode(n) == Ascii[n - 31]

IsUpper(c) == CodeOf[c] >= 65 /\ CodeOf[c] <= 90
IsLower(c) == CodeOf[c] >= 97 /\ CodeOf[c] <= 122
IsDigit(c) == CodeOf[c] >= 48 /\ CodeOf[c] <= 57

\* String.prototype.toUpperCase / toLowerCase, one character
UpperChar(c) == IF IsLower(c) THEN CharOfCode(CodeOf[c] - 32) ELSE c
LowerChar(c) == IF IsUpper(c) THEN CharOfCode(CodeOf[c] + 32) ELSE c

toLowerCase(s) == [i \in 1..Len(s) |-> LowerChar(s[i])]

\* the white space of String.prototype.trim and of \s: space, tab, line
\* feed, form feed and carriage return (of the larger set JavaScript has)
IsSpace(c) == c \in {" ", "\t", "\n", "\f", "\r"}

\* String.prototype.includes
includes(s, q) == \E i \in 1..(Len(s) + 1) : IsPrefixAt(q, s, i)

\* the comparison of two strings by UTF-16 code units (the default of
\* Array.prototype.sort): TRUE when a sorts strictly before b
RECURSIVE CodeUnitLess(_, _)
CodeUnitLess(a, b) ==
    IF b = <<>> THEN FALSE
    ELSE IF a = <<>> THEN TRUE
    ELSE IF CodeOf[Head(a)] # CodeOf[Head(b)] THEN CodeOf[Head(a)] < CodeOf[Head(b)]
    ELSE CodeUnitLess(Tail(a), Tail(b))

\* String(n) for an integer n >= 0
RECURSIVE DecimalString(_)
DecimalString(n) ==
    IF n < 10 THEN <<CharOfCode(48 + n)>>
    ELSE Append(DecimalString(n \div 10), CharOfCode(48 + (n % 10)))

(***************************************************************************)
(* JavaScript values, JSON.stringify and JSON.parse.  The grammar covered  *)
(* is JSON without string literals, fractions and object members: the      *)
(* numbers 0, 1, 2, ..., null, true, false, arrays and the empty object.   *)
(***************************************************************************)
Num(n) == [t |-> "num", n |-> n, e |-> <<>>]
Null == [t |-> "null", n |-> 0, e |-> <<>>]
Bool(b) == [t |-> "bool", n |-> IF b THEN 1 ELSE 0, e |-> <<>>]
Arr(s) == [t |-> "arr", n |-> 0, e |-> s]
Obj == [t |-> "obj", n |-> 0, e |-> <<>>]

NumSeq(s) == [i \in 1..Len(s) |-> Num(s[i])]

\* new Set(iterable): the distinct members, in order of first occurrence
RECURSIVE NewSet(_)
NewSet(arr) ==
    IF arr = <<>> THEN <<>>
    ELSE LET init == NewSet(SubSeq(arr, 1, Len(arr) - 1))
             last == arr[Len(arr)]
         IN IF last \in Range(init) THEN init ELSE Append(init, last)

\* Set.prototype.has / add / delete
SetHas(set, x) == x \in Range(set)
SetAdd(set, x) == IF SetHas(set, x) THEN set ELSE Append(set, x)
SetDelete(set, x) == SelectSeq(set, LAMBDA y : y # x)

RECURSIVE Stringify(_)
RECURSIVE StringifyElems(_)
StringifyElems(s) ==
    IF s = <<>> THEN <<>>
    ELSE IF Len(s) = 1 THEN Stringify(s[1])
    ELSE Stringify(s[1]) \o <<",">> \o StringifyElems(Tail(s))

\* JSON.stringify
Stringify(v) ==
    CASE v.t = "num" -> DecimalString(v.n)
      [] v.t = "null" -> <<"n", "u", "l", "l">>
      [] v.t = "bool" -> IF v.n = 1 THEN <<"t", "r", "u", "e">>
                         ELSE <<"f", "a", "l", "s", "e">>
      [] v.t = "arr" -> <<"[">> \o StringifyElems(v.e) \o <<"]">>
      [] v.t = "obj" -> <<"{", "}">>

RECURSIVE SkipSpace(_, _)
SkipSpace(s, i) ==
    IF i <= Len(s) /\ s[i] \in {" ", "\t", "\n", "\r"} THEN SkipSpace(s, i + 1) ELSE i

RECURSIVE DigitsEnd(_, _)
DigitsEnd(s, i) ==
    IF i <= Len(s) /\ IsDigit(s[i]) THEN DigitsEnd(s, i + 1) ELSE i

RECURSIVE DigitsValue(_, _, _)
DigitsValue(s, i, j) ==
    IF j < i THEN 0
    ELSE 10 * DigitsValue(s, i, j - 1) + (CodeOf[s[j]] - 48)

ParseFail == [ok |-> FALSE, val |-> Null, next |-> 0]
ParseOk(v, next) == [ok |-> TRUE, val |-> v, next |-> next]

RECURSIVE ParseValue(_, _)
RECURSIVE ParseElems(_, _, _)

\* the elements of an array after its first: ("," value)* "]"
ParseElems(s, i, acc) ==
    LET j == SkipSpace(s, i)
    IN IF j > Len(s) THEN ParseFail
       ELSE IF s[j] = "]" THEN ParseOk(Arr(acc), j + 1)
       ELSE IF s[j] # "," THEN ParseFail
       ELSE LET r == ParseValue(s, j + 1)
            IN IF ~r.ok THEN ParseFail
               ELSE ParseElems(s, r.next, Append(acc, r.val))

\* one value starting at or after position i (leading white space skipped)
ParseValue(s, i) ==
    LET j == SkipSpace(s, i)
    IN IF j > Len(s) THEN ParseFail
       ELSE IF IsDigit(s[j]) THEN
            LET k == DigitsEnd(s, j)
            IN IF s[j] = "0" /\ k > j + 1 THEN ParseFail
               ELSE ParseOk(Num(DigitsValue(s, j, k - 1)), k)
       ELSE IF IsPrefixAt(<<"n", "u", "l", "l">>, s, j) THEN ParseOk(Null, j + 4)
       ELSE IF IsPrefixAt(<<"t", "r", "u", "e">>, s, j) THEN ParseOk(Bool(TRUE), j + 4)
       ELSE IF IsPrefixAt(<<"f", "a", "l", "s", "e">>, s, j) THEN ParseOk(Bool(FALSE), j + 5)
       ELSE IF s[j] = "{" THEN
            LET k == SkipSpace(s, j + 1)
            IN IF k <= Len(s) /\ s[k] = "}" THEN ParseOk(Obj, k + 1) ELSE ParseFail
       ELSE IF s[j] = "[" THEN
            LET k == SkipSpace(s, j + 1)
            IN IF k <= Len(s) /\ s[k] = "]" THEN ParseOk(Arr(<<>>), k + 1)
               ELSE LET r == ParseValue(s, k)
                    IN IF ~r.ok THEN ParseFail
                       ELSE ParseElems(s, r.next, <<r.val>>)
       ELSE ParseFail

\* JSON.parse: [ok |-> FALSE] stands for the SyntaxError it throws
JSONParse(s) ==
    LET r == ParseValue(s, 1)
    IN IF r.ok /\ SkipSpace(s, r.next) = Len(s) + 1 THEN [ok |-> TRUE, val |-> r.val]
       ELSE [ok |-> FALSE, val |-> Null]

(***************************************************************************)
(* The persisted selection set: localStorage under LS_KEY.                 *)
(* A call's outcome is [threw, val]: threw says an exception left it.      *)
(***************************************************************************)
\* denied: the browser refuses access to localStorage, so that getItem and
\* setItem both throw; it does not change while the page lives.
Absent(denied) == [present |-> FALSE, raw |-> <<>>, denied |-> denied]
Stored(raw, denied) == [present |-> TRUE, raw |-> raw, denied |-> denied]

Returned(v) == [threw |-> FALSE, val |-> v]
Threw(v) == [threw |-> TRUE, val |-> v]

\* the try block of loadCaught
LoadCaughtTry(store) ==
    IF store.denied THEN Threw(<<>>)
    ELSE IF ~store.present \/ store.raw = <<>> THEN Returned(<<>>)
    ELSE LET arr == JSONParse(store.raw)
         IN IF ~arr.ok THEN Threw(<<>>)
            ELSE Returned(NewSet(IF arr.val.t = "arr" THEN arr.val.e ELSE <<>>))

LoadCaughtNoCatch(store) == LoadCaughtTry(store)

\* loadCaught with the branches of Array.isArray exchanged
LoadCaughtSwapped(store) ==
    IF store.denied \/ ~store.present \/ store.raw = <<>> THEN Returned(<<>>)
    ELSE LET arr == JSONParse(store.raw)
         IN IF ~arr.ok THEN Returned(<<>>)
            ELSE Returned(NewSet(IF arr.val.t = "arr" THEN <<>> ELSE arr.val.e))

loadCaught(store) ==
    LET r == LoadCaughtTry(store)
    IN IF r.threw THEN Returned(<<>>) ELSE r

\* the try block of saveCaught; val is the store afterwards.
\* quotaExceeded: localStorage.setItem throws QuotaExceededError.
SaveCaughtTry(store, set, quotaExceeded) ==
    IF store.denied \/ quotaExceeded THEN Threw(store)
    ELSE Returned(Stored(Stringify(Arr(set)), store.denied))

SaveCaughtNoCatch(store, set, quotaExceeded) == SaveCaughtTry(store, set, quotaExceeded)

\* saveCaught with JSON.stringify(set): a Set has no enumerable properties
SaveCaughtNoArrayFrom(store, set, quotaExceeded) ==
    IF store.denied \/ quotaExceeded THEN Returned(store)
    ELSE Returned(Stored(Stringify(Obj), store.denied))

saveCaught(store, set, quotaExceeded) ==
    LET r == SaveCaughtTry(store, set, quotaExceeded)
    IN Returned(r.val)

(***************************************************************************)
(* Records the store may hold, each with its kind: absent (no record, or   *)
(* the empty string), unreadable, an array, JSON that is no array, and     *)
(* text that is no JSON.                                                   *)
(***************************************************************************)
StorageSamples ==
    { [kind |-> "absent",    store |-> Absent(FALSE)],
      [kind |-> "absent",    store |-> Stored(<<>>, FALSE)],
      [kind |-> "unreadable", store |-> Absent(TRUE)],
      [kind |-> "unreadable", store |-> Stored(<<"[", "1", "]">>, TRUE)],
      [kind |-> "array",     store |-> Stored(<<"[", "]">>, FALSE)],
      [kind |-> "array",     store |-> Stored(<<"[", "2", ",", "1", "]">>, FALSE)],
      [kind |-> "array",     store |-> Stored(<<"[", "1", ",", "1", "]">>, FALSE)],
      [kind |-> "array",     store |-> Stored(<<" ", "[", " ", "1", "0", " ", ",", "3", "]", " ">>, FALSE)],
      [kind |-> "array",     store |-> Stored(<<"[", "n", "u", "l", "l", ",", "1", "]">>, FALSE)],
      [kind |-> "notarray",  store |-> Stored(<<"7">>, FALSE)],
      [kind |-> "notarray",  store |-> Stored(<<"0">>, FALSE)],
      [kind |-> "notarray",  store |-> Stored(<<"n", "u", "l", "l">>, FALSE)],
      [kind |-> "notarray",  store |-> Stored(<<"t", "r", "u", "e">>, FALSE)],
      [kind |-> "notarray",  store |-> Stored(<<"{", "}">>, FALSE)],
      [kind |-> "malformed", store |-> Stored(<<"[", "1", ",">>, FALSE)],
      [kind |-> "malformed", store |-> Stored(<<"[", "1", " ", "2", "]">>, FALSE)],
      [kind |-> "malformed", store |-> Stored(<<"1", "]">>, FALSE)],
      [kind |-> "malformed", store |-> Stored(<<"[", "0", "1", "]">>, FALSE)],
      [kind |-> "malformed", store |-> Stored(<<"[", "1", ",", "]">>, FALSE)],
      [kind |-> "malformed", store |-> Stored(<<"x">>, FALSE)],
      [kind |-> "malformed", store |-> Stored(<<" ">>, FALSE)] }

\* species indices handed to saveCaught: one, two and three digits
StorageIds == {1, 2, 10, 123}

\* the Sets of at most n members of S, each in every insertion order
RECURSIVE OrderedSets(_, _)
OrderedSets(S, n) ==
    IF n = 0 THEN {<<>>}
    ELSE LET shorter == OrderedSets(S, n - 1)
         IN shorter \cup UNION {{Append(s, x) : x \in S \ Range(s)} : s \in shorter}

(***************************************************************************)
(* titleCase, VERSION_LABELS, versionLabel.                                *)
(***************************************************************************)
\* the separators of titleCase's split(/[-\s_]+/)
IsSeparator(c) == c = "-" \/ c = "_" \/ IsSpace(c)

\* s.split(/[-\s_]+/).filter(Boolean): the maximal runs of non-separators
RECURSIVE SplitWords(_, _)
SplitWords(s, cur) ==
    IF s = <<>> THEN (IF cur = <<>> THEN <<>> ELSE <<cur>>)
    ELSE IF IsSeparator(Head(s))
         THEN (IF cur = <<>> THEN <<>> ELSE <<cur>>) \o SplitWords(Tail(s), <<>>)
         ELSE SplitWords(Tail(s), Append(cur, Head(s)))

\* w.charAt(0).toUpperCase() + w.slice(1)
Capitalize(w) == <<UpperChar(Head(w))>> \o Tail(w)

RECURSIVE JoinSpace(_)
JoinSpace(ws) ==
    IF ws = <<>> THEN <<>>
    ELSE IF Len(ws) = 1 THEN ws[1]
    ELSE ws[1] \o <<" ">> \o JoinSpace(Tail(ws))

titleCase(s) ==
    LET ws == SplitWords(s, <<>>)
    IN JoinSpace([i \in 1..Len(ws) |-> Capitalize(ws[i])])

VERSION_LABELS ==
    << [k |-> <<"r", "e", "d">>,
        v |-> <<"R", "e", "d">>],
       [k |-> <<"b", "l", "u", "e">>,
        v |-> <<"B", "l", "u", "e">>],
       [k |-> <<"y", "e", "l", "l", "o", "w">>,
        v |-> <<"Y", "e", "l", "l", "o", "w">>],
       [k |-> <<"g", "o", "l", "d">>,
        v |-> <<"G", "o", "l", "d">>],
       [k |-> <<"s", "i", "l", "v", "e", "r">>,
        v |-> <<"S", "i", "l", "v", "e", "r">>],
       [k |-> <<"c", "r", "y", "s", "t", "a", "l">>,
        v |-> <<"C", "r", "y", "s", "t", "a", "l">>],
       [k |-> <<"r", "u", "b", "y">>,
        v |-> <<"R", "u", "b", "y">>],
       [k |-> <<"s", "a", "p", "p", "h", "i", "r", "e">>,
        v |-> <<"S", "a", "p", "p", "h", "i", "r", "e">>],
       [k |-> <<"e", "m", "e", "r", "a", "l", "d">>,
        v |-> <<"E", "m", "e", "r", "a", "l", "d">>],
       [k |-> <<"f", "i", "r", "e", "r", "e", "d">>,
        v |-> <<"F", "i", "r", "e", "R", "e", "d">>],
       [k |-> <<"l", "e", "a", "f", "g", "r", "e", "e", "n">>,
        v |-> <<"L", "e", "a", "f", "G", "r", "e", "e", "n">>],
       [k |-> <<"d", "i", "a", "m", "o", "n", "d">>,
        v |-> <<"D", "i", "a", "m", "o", "n", "d">>],
       [k |-> <<"p", "e", "a", "r", "l">>,
        v |-> <<"P", "e", "a", "r", "l">>],
       [k |-> <<"p", "l", "a", "t", "i", "n", "u", "m">>,
        v |-> <<"P", "l", "a", "t", "i", "n", "u", "m">>],
       [k |-> <<"h", "e", "a", "r", "t", "g", "o", "l", "d">>,
        v |-> <<"H", "e", "a", "r", "t", "G", "o", "l", "d">>],
       [k |-> <<"s", "o", "u", "l", "s", "i", "l", "v", "e", "r">>,
        v |-> <<"S", "o", "u", "l", "S", "i", "l", "v", "e", "r">>],
       [k |-> <<"b", "l", "a", "c", "k">>,
        v |-> <<"B", "l", "a", "c", "k">>],
       [k |-> <<"w", "h", "i", "t", "e">>,
        v |-> <<"W", "h", "i", "t", "e">>],
       [k |-> <<"b", "l", "a", "c", "k", "-", "2">>,
        v |-> <<"B", "l", "a", "c", "k", " ", "2">>],
       [k |-> <<"w", "h", "i", "t", "e", "-", "2">>,
        v |-> <<"W", "h", "i", "t", "e", " ", "2">>],
       [k |-> <<"x">>,
        v |-> <<"X">>],
       [k |-> <<"y">>,
        v |-> <<"Y">>],
       [k |-> <<"o", "m", "e", "g", "a", "-", "r", "u", "b", "y">>,
        v |-> <<"O", "m", "e", "g", "a", " ", "R", "u", "b", "y">>],
       [k |-> <<"a", "l", "p", "h", "a", "-", "s", "a", "p", "p", "h", "i", "r", "e">>,
        v |-> <<"A", "l", "p", "h", "a", " ", "S", "a", "p", "p", "h", "i", "r", "e">>],
       [k |-> <<"s", "u", "n">>,
        v |-> <<"S", "u", "n">>],
       [k |-> <<"m", "o", "o", "n">>,
        v |-> <<"M", "o", "o", "n">>],
       [k |-> <<"u", "l", "t", "r", "a", "-", "s", "u", "n">>,
        v |-> <<"U", "l", "t", "r", "a", " ", "S", "u", "n">>],
       [k |-> <<"u", "l", "t", "r", "a", "-", "m", "o", "o", "n">>,
        v |-> <<"U", "l", "t", "r", "a", " ", "M", "o", "o", "n">>],
       [k |-> <<"l", "e", "t", "s", "-", "g", "o", "-", "p", "i", "k", "a", "c", "h", "u">>,
        v |-> <<"L", "e", "t", "rsquo", "s", " ", "G", "o", " ", "P", "i", "k", "a", "c", "h", "u">>],
       [k |-> <<"l", "e", "t", "s", "-", "g", "o", "-", "e", "e", "v", "e", "e">>,
        v |-> <<"L", "e", "t", "rsquo", "s", " ", "G", "o", " ", "E", "e", "v", "e", "e">>],
       [k |-> <<"s", "w", "o", "r", "d">>,
        v |-> <<"S", "w", "o", "r", "d">>],
       [k |-> <<"s", "h", "i", "e", "l", "d">>,
        v |-> <<"S", "h", "i", "e", "l", "d">>],
       [k |-> <<"b", "r", "i", "l", "l", "i", "a", "n", "t", "-", "d", "i", "a", "m", "o", "n", "d">>,
        v |-> <<"B", "r", "i", "l", "l", "i", "a", "n", "t", " ", "D", "i", "a", "m", "o", "n", "d">>],
       [k |-> <<"s", "h", "i", "n", "i", "n", "g", "-", "p", "e", "a", "r", "l">>,
        v |-> <<"S", "h", "i", "n", "i", "n", "g", " ", "P", "e", "a", "r", "l">>],
       [k |-> <<"l", "e", "g", "e", "n", "d", "s", "-", "a", "r", "c", "e", "u", "s">>,
        v |-> <<"L", "e", "g", "e", "n", "d", "s", ":", " ", "A", "r", "c", "e", "u", "s">>],
       [k |-> <<"s", "c", "a", "r", "l", "e", "t">>,
        v |-> <<"S", "c", "a", "r", "l", "e", "t">>],
       [k |-> <<"v", "i", "o", "l", "e", "t">>,
        v |-> <<"V", "i", "o", "l", "e", "t">>] >>

versionLabel(v) ==
    IF \E i \in 1..Len(VERSION_LABELS) : VERSION_LABELS[i].k = v
    THEN VERSION_LABELS[CHOOSE i \in 1..Len(VERSION_LABELS) : VERSION_LABELS[i].k = v].v
    ELSE titleCase(v)

(***************************************************************************)
(* String.prototype.localeCompare in the default locale: the characters'   *)
(* primary weights decide (white space, punctuation, symbols, digits,      *)
(* letters without their case); between strings equal at that level the    *)
(* first difference of case decides, lower case first.                     *)
(***************************************************************************)
CollationOrder ==
    << " ", "_", "-", ",", ";", ":", "!", "?", ".", "'", "rsquo", "\"", "(", ")",
       "[", "]", "{", "}", "@", "*", "/", "\\", "&", "#", "%", "grave", "^", "+", "<",
       "=", ">", "|", "~", "$",
       "0", "1", "2", "3", "4", "5", "6", "7", "8", "9",
       "a", "b", "c", "d", "e", "f", "g", "h", "i", "j", "k", "l", "m",
       "n", "o", "p", "q", "r", "s", "t", "u", "v", "w", "x", "y", "z" >>

PrimaryWeight == [c \in CharSet |->
    CHOOSE i \in 1..Len(CollationOrder) : CollationOrder[i] = LowerChar(c)]

RECURSIVE ComparePrimary(_, _)
ComparePrimary(a, b) ==
    IF a = <<>> /\ b = <<>> THEN 0
    ELSE IF a = <<>> THEN -1
    ELSE IF b = <<>> THEN 1
    ELSE IF PrimaryWeight[Head(a)] < PrimaryWeight[Head(b)] THEN -1
    ELSE IF PrimaryWeight[Head(a)] > PrimaryWeight[Head(b)] THEN 1
    ELSE ComparePrimary(Tail(a), Tail(b))

RECURSIVE CompareCase(_, _)
CompareCase(a, b) ==
    IF a = <<>> \/ b = <<>> THEN 0
    ELSE IF Head(a) = Head(b) THEN CompareCase(Tail(a), Tail(b))
    ELSE IF IsLower(Head(a)) THEN -1 ELSE 1

localeCompare(a, b) ==
    LET p == ComparePrimary(a, b)
    IN IF p # 0 THEN p ELSE CompareCase(a, b)

(***************************************************************************)
(* Array.prototype.sort is stable: an element goes after those already     *)
(* placed that do not sort after it.                                       *)
(***************************************************************************)
\* (a, b) => versionLabel(a).localeCompare(versionLabel(b))
CompareByLabel(a, b) == localeCompare(versionLabel(a), versionLabel(b))

RECURSIVE InsertByLabel(_, _)
InsertByLabel(sorted, x) ==
    IF sorted = <<>> THEN <<x>>
    ELSE LET last == sorted[Len(sorted)]
         IN IF CompareByLabel(last, x) <= 0 THEN Append(sorted, x)
            ELSE Append(InsertByLabel(SubSeq(sorted, 1, Len(sorted) - 1), x), last)

RECURSIVE SortByLabel(_)
SortByLabel(s) ==
    IF s = <<>> THEN <<>>
    ELSE InsertByLabel(SortByLabel(SubSeq(s, 1, Len(s) - 1)), s[Len(s)])

RECURSIVE InsertByCodeUnits(_, _)
InsertByCodeUnits(sorted, x) ==
    IF sorted = <<>> THEN <<x>>
    ELSE LET last == sorted[Len(sorted)]
         IN IF ~CodeUnitLess(x, last) THEN Append(sorted, x)
            ELSE Append(InsertByCodeUnits(SubSeq(sorted, 1, Len(sorted) - 1), x), last)

\* arr.sort() without a comparator
RECURSIVE SortByCodeUnits(_)
SortByCodeUnits(s) ==
    IF s = <<>> THEN <<>>
    ELSE InsertByCodeUnits(SortByCodeUnits(SubSeq(s, 1, Len(s) - 1)), s[Len(s)])

(***************************************************************************)
(* normalizeEncounterData.  A row is [loc, vds]: loc the name of its       *)
(* location_area, vds the version names of its version_details; the empty  *)
(* string <<>> stands for a name that is missing (undefined) or empty,     *)
(* which the code's !v and !loc treat alike.  The object byVersion is the  *)
(* sequence of its [v, locs] entries in the order the keys were created.   *)
(***************************************************************************)
Falsy(name) == name = <<>>

HasKey(obj, v) == \E i \in 1..Len(obj) : obj[i].v = v
KeyIndex(obj, v) == CHOOSE i \in 1..Len(obj) : obj[i].v = v
ObjectKeys(obj) == [i \in 1..Len(obj) |-> obj[i].v]
Lookup(obj, v) == obj[KeyIndex(obj, v)].locs

\* the body of the inner loop for one version_details entry
AddEncounter(byVersion, loc, v) ==
    IF Falsy(v) \/ Falsy(loc) THEN byVersion
    ELSE IF ~HasKey(byVersion, v) THEN Append(byVersion, [v |-> v, locs |-> <<loc>>])
    ELSE [byVersion EXCEPT ![KeyIndex(byVersion, v)].locs = SetAdd(@, loc)]

RECURSIVE AddRow(_, _, _)
AddRow(byVersion, loc, vds) ==
    IF vds = <<>> THEN byVersion
    ELSE AddRow(AddEncounter(byVersion, loc, Head(vds)), loc, Tail(vds))

RECURSIVE GroupRows(_, _)
GroupRows(byVersion, encArr) ==
    IF encArr = <<>> THEN byVersion
    ELSE GroupRows(AddRow(byVersion, Head(encArr).loc, Head(encArr).vds), Tail(encArr))

NormalizeUnsortedLocations(encArr) ==
    LET byVersion == GroupRows(<<>>, encArr)
        versions == SortByLabel(ObjectKeys(byVersion))
    IN [versions |-> versions,
        byVersion |-> [i \in 1..Len(versions) |->
                          [v |-> versions[i], locs |-> Lookup(byVersion, versions[i])]]]

normalizeEncounterData(encArr) ==
    LET byVersion == GroupRows(<<>>, encArr)
        versions == SortByLabel(ObjectKeys(byVersion))
    IN [versions |-> versions,
        byVersion |-> [i \in 1..Len(versions) |->
                          [v |-> versions[i],
                           locs |-> SortByCodeUnits(Lookup(byVersion, versions[i]))]]]

EmptyEncounterMap == [versions |-> <<>>, byVersion |-> <<>>]

(***************************************************************************)
(* The catalog service.  Its encounter data for species id: species whose  *)
(* index is a multiple of 3 are met nowhere, the others at a location      *)
(* named after the index, the odd ones also at "b" in a second version.    *)
(***************************************************************************)
LocationOf(id) == <<"r">> \o DecimalString(id)

EncounterResponse(id) ==
    IF id % 3 = 0 THEN <<>>
    ELSE IF id % 2 = 1
         THEN << [loc |-> LocationOf(id), vds |-> <<<<"y">>, <<"x">>>>],
                 [loc |-> <<"b">>, vds |-> <<<<"x">>>>] >>
         ELSE << [loc |-> LocationOf(id), vds |-> <<<<"y">>>>] >>

(***************************************************************************)
(* App and DexSidePanel.                                                   *)
(***************************************************************************)
clampNoUpper(n, a, b) == Max(a, n)

clamp(n, a, b) == Max(a, Min(b, n))

\* list.results.map((r, i) => ({ id: i + 1, ... })): n stubs, not enriched
Stubs(n) == [i \in 1..n |-> [id |-> i, types |-> FALSE]]

\* items[idx], with [id |-> 0] for undefined
ItemAt(its, idx) ==
    IF idx + 1 \in DOMAIN its THEN its[idx + 1] ELSE [id |-> 0, types |-> FALSE]

selected == ItemAt(items, selectedIndex)

\* items.findIndex((p) => p.id === id)
findIndexOneBased(its, id) ==
    IF \E i \in 1..Len(its) : its[i].id = id
    THEN CHOOSE i \in 1..Len(its) :
              its[i].id = id /\ \A j \in 1..(i - 1) : its[j].id # id
    ELSE -1

findIndex(its, id) ==
    IF \E i \in 1..Len(its) : its[i].id = id
    THEN (CHOOSE i \in 1..Len(its) :
              its[i].id = id /\ \A j \in 1..(i - 1) : its[j].id # id) - 1
    ELSE -1

NoEnc == [set |-> FALSE, map |-> EmptyEncounterMap]
SetEnc(m) == [set |-> TRUE, map |-> m]

\* DexSidePanel's state as useState initialises it; species is the index
\* whose species record is held (0: null), selectedVersion <<>> is null
FreshPanel(id) ==
    [mounted |-> TRUE, id |-> id, species |-> 0, error |-> FALSE, enc |-> NoEnc,
     encLoading |-> FALSE, selectedVersion |-> <<>>]

NoPanel == [FreshPanel(0) EXCEPT !.mounted = FALSE]

\* the effect's cleanup: return () => { alive = false; }
EffectCleanupMissing(effs) == effs

EffectCleanup(effs) == [i \in 1..Len(effs) |-> [effs[i] EXCEPT !.alive = FALSE]]

\* the effect of DexSidePanel started for species id, at its first await
NewEffect(id) == [id |-> id, alive |-> TRUE, pc |-> "species"]

\* React's render after a change of App's state: DexSidePanel is rendered
\* when (selected && view === "dex"), under the key selected.id; a change of
\* key unmounts the panel (its effect's cleanup runs) and mounts a new one
Render(its, idx, vw, pnl, effs) ==
    LET sel == ItemAt(its, idx)
        want == sel.id # 0 /\ vw = "dex"
    IN IF pnl.mounted = want /\ (want => pnl.id = sel.id)
       THEN [panel |-> pnl, effects |-> effs]
       ELSE [panel |-> IF want THEN FreshPanel(sel.id) ELSE NoPanel,
             effects |-> EffectCleanup(effs)
                            \o (IF want THEN <<NewEffect(sel.id)>> ELSE <<>>)]

\* the render that follows a handler of App
Rerendered ==
    LET r == Render(items', selectedIndex', view', panel, effects)
    IN /\ Len(r.effects) <= MaxInFlight
       /\ panel' = r.panel
       /\ effects' = r.effects

\* DexSidePanel is rendered: selected && view === "dex"
PanelRendered == selected.id # 0 /\ view = "dex"

\* lastOp: the handler, its argument, whether its request or write
\* succeeded, and (for a toggle) whether the store held a record other
\* than the text of caught when the handler began
Op(op, arg, ok) == [op |-> op, arg |-> arg, ok |-> ok, lag |-> FALSE]

SameMembers(a, b) == Range(a) = Range(b)

\* the bulk list request resolves with n results
ListLoaded(n) ==
    /\ listReq = "pending"
    /\ listReq' = "done"
    /\ items' = Stubs(n)
    /\ selectedIndex' = 0
    /\ loading' = FALSE
    /\ lastOp' = Op("list", n, TRUE)
    /\ UNCHANGED <<view, caught, storage, thrown, input, output>>

\* the bulk list request fails
ListFailed ==
    /\ listReq = "pending"
    /\ listReq' = "done"
    /\ items' = <<>>
    /\ loading' = FALSE
    /\ lastOp' = Op("list", 0, FALSE)
    /\ UNCHANGED <<selectedIndex, view, caught, storage, thrown, input, output>>

\* the Prev and Next buttons: delta is -1 or 1
MoveSelection(delta) ==
    /\ selectedIndex' = clamp(selectedIndex + delta, 0, Len(items) - 1)
    /\ lastOp' = Op("move", delta, TRUE)
    /\ UNCHANGED <<items, loading, view, caught, storage, thrown, listReq, input, output>>

\* a click on the carousel's button idx: onSelect(idx)
CarouselSelect(idx) ==
    /\ ~loading
    /\ idx \in 0..(Len(items) - 1)
    /\ selectedIndex' = idx
    /\ lastOp' = Op("select", idx, TRUE)
    /\ UNCHANGED <<items, loading, view, caught, storage, thrown, listReq, input, output>>

\* the Dex and List toggles
SetView(v) ==
    /\ view' = v
    /\ lastOp' = Op("view", 0, TRUE)
    /\ UNCHANGED <<items, loading, selectedIndex, caught, storage, thrown, listReq,
                   input, output>>

\* jumpToId, which ListView holds as onJumpToId
JumpToId(id) ==
    /\ view = "list"
    /\ LET idx == findIndex(items, id)
       IN IF idx >= 0
          THEN /\ view' = "dex"
               /\ selectedIndex' = idx
          ELSE UNCHANGED <<view, selectedIndex>>
    /\ lastOp' = Op("jump", id, findIndex(items, id) >= 0)
    /\ UNCHANGED <<items, loading, caught, storage, thrown, listReq, input, output>>

\* the updater of toggleCaught: the next Set
ToggledAddOnly(prev, id) == SetAdd(prev, Num(id))

Toggled(prev, id) ==
    IF SetHas(prev, Num(id)) THEN SetDelete(prev, Num(id)) ELSE SetAdd(prev, Num(id))

\* toggleCaught(id), from the panel's button (selected.id) or from a row of
\* ListView (p.id)
ToggleCaught(id, quotaExceeded) ==
    /\ \/ PanelRendered /\ id = selected.id
       \/ view = "list" /\ \E i \in 1..Len(items) : items[i].id = id
    /\ id # 0
    /\ LET next == Toggled(caught, id)
           r == saveCaught(storage, next, quotaExceeded)
       IN /\ storage' = r.val
          /\ thrown' = (thrown \/ r.threw)
          /\ caught' = IF r.threw THEN caught ELSE next
    /\ lastOp' = [Op("toggle", id, ~(storage.denied \/ quotaExceeded))
                     EXCEPT !.lag = (storage.present /\ storage.raw # Stringify(Arr(caught)))]
    /\ UNCHANGED <<items, loading, selectedIndex, view, listReq, panel, effects,
                   input, output>>
    /\ UNCHANGED detailVars

RemoveAt(s, k) == SubSeq(s, 1, k - 1) \o SubSeq(s, k + 1, Len(s))

\* fetchSpecies resolves (ok) or rejects for the effect run k; a run that
\* is no longer alive returns, a live one goes on to setEncLoading(true)
\* and awaits fetchEncounters
SpeciesDone(k, ok) ==
    /\ k \in 1..Len(effects)
    /\ effects[k].pc = "species"
    /\ IF ~effects[k].alive
       THEN /\ effects' = RemoveAt(effects, k)
            /\ UNCHANGED panel
       ELSE /\ effects' = [effects EXCEPT ![k].pc = "enc"]
            /\ panel' = IF ok
                        THEN [panel EXCEPT !.species = effects[k].id, !.encLoading = TRUE]
                        ELSE [panel EXCEPT !.error = TRUE, !.encLoading = TRUE]
    /\ lastOp' = Op("species", effects[k].id, ok)
    /\ UNCHANGED <<items, loading, selectedIndex, view, caught, storage, thrown,
                   listReq, input, output>>
    /\ UNCHANGED detailVars

\* norm.versions[1] || null
FirstVersionSecond(norm) == IF Len(norm.versions) > 1 THEN norm.versions[2] ELSE <<>>

\* norm.versions[0] || null
FirstVersion(norm) == IF norm.versions # <<>> THEN norm.versions[1] ELSE <<>>

\* fetchEncounters resolves (ok) or rejects for the effect run k
EncountersDone(k, ok) ==
    /\ k \in 1..Len(effects)
    /\ effects[k].pc = "enc"
    /\ effects' = RemoveAt(effects, k)
    /\ IF ~effects[k].alive
       THEN UNCHANGED panel
       ELSE IF ok
       THEN LET norm == normalizeEncounterData(EncounterResponse(effects[k].id))
            IN panel' = [panel EXCEPT !.enc = SetEnc(norm),
                                      !.selectedVersion = FirstVersion(norm),
                                      !.encLoading = FALSE]
       ELSE panel' = [panel EXCEPT !.enc = SetEnc(EmptyEncounterMap),
                                   !.encLoading = FALSE]
    /\ lastOp' = Op("encounters", effects[k].id, ok)
    /\ UNCHANGED <<items, loading, selectedIndex, view, caught, storage, thrown,
                   listReq, input, output>>
    /\ UNCHANGED detailVars

\* a click on the button of version v: setSelectedVersion(v)
SelectVersion(v) ==
    /\ panel.mounted
    /\ v \in Range(panel.enc.map.versions)
    /\ panel' = [panel EXCEPT !.selectedVersion = v]
    /\ lastOp' = Op("version", 0, TRUE)
    /\ UNCHANGED <<items, loading, selectedIndex, view, caught, storage, thrown,
                   listReq, effects, input, output>>
    /\ UNCHANGED detailVars

\* what localStorage may hold when the page is opened
AppStorageSamples ==
    { Absent(FALSE), Absent(TRUE),
      Stored(<<"[", "2", ",", "1", "]">>, FALSE),
      Stored(<<"[", "1", ",">>, FALSE) }

\* App as its useState calls leave it, the bulk list request under way
InitNav ==
    /\ items = <<>>
    /\ loading = TRUE
    /\ selectedIndex = 0
    /\ view = "dex"
    /\ listReq = "pending"
    /\ panel = NoPanel
    /\ effects = <<>>
    /\ fetches = <<>>
    /\ failedIds = {}
    /\ merged = [id \in 1..MaxItems |-> 0]

Init ==
    /\ InitNav
    /\ storage \in AppStorageSamples
    /\ caught = loadCaught(storage).val
    /\ thrown = loadCaught(storage).threw
    /\ lastOp = Op("init", 0, TRUE)
    /\ input = <<>>
    /\ output = <<>>

\* App without its detail panel: navigation, the caught set and its store
Next ==
    \/ \E n \in 0..MaxItems : ListLoaded(n) /\ UNCHANGED <<panel, effects>> /\ UNCHANGED detailVars
    \/ ListFailed /\ UNCHANGED <<panel, effects>> /\ UNCHANGED detailVars
    \/ \E delta \in {-1, 1} : MoveSelection(delta) /\ UNCHANGED <<panel, effects>> /\ UNCHANGED detailVars
    \/ \E idx \in 0..(MaxItems - 1) : CarouselSelect(idx) /\ UNCHANGED <<panel, effects>> /\ UNCHANGED detailVars
    \/ \E v \in {"dex", "list"} : SetView(v) /\ UNCHANGED <<panel, effects>> /\ UNCHANGED detailVars
    \/ \E id \in 1..(MaxItems + 1) : JumpToId(id) /\ UNCHANGED <<panel, effects>> /\ UNCHANGED detailVars
    \/ \E id \in 1..MaxItems, q \in BOOLEAN : ToggleCaught(id, q)

Spec == Init /\ [][Next]_vars

\* App with its detail panel: navigation, DexSidePanel and its fetches
InitPanel == Init /\ storage = Absent(FALSE)

NextPanel ==
    \/ \E n \in 0..MaxItems : ListLoaded(n) /\ Rerendered /\ UNCHANGED detailVars
    \/ ListFailed /\ Rerendered /\ UNCHANGED detailVars
    \/ \E delta \in {-1, 1} : MoveSelection(delta) /\ Rerendered /\ UNCHANGED detailVars
    \/ \E idx \in 0..(MaxItems - 1) : CarouselSelect(idx) /\ Rerendered /\ UNCHANGED detailVars
    \/ \E v \in {"dex", "list"} : SetView(v) /\ Rerendered /\ UNCHANGED detailVars
    \/ \E id \in 1..(MaxItems + 1) : JumpToId(id) /\ Rerendered /\ UNCHANGED detailVars
    \/ \E k \in 1..MaxInFlight, ok \in BOOLEAN : SpeciesDone(k, ok)
    \/ \E k \in 1..MaxInFlight, ok \in BOOLEAN : EncountersDone(k, ok)
    \/ \E v \in {<<"x">>, <<"y">>} : SelectVersion(v)

SpecPanel == InitPanel /\ [][NextPanel]_vars

(***************************************************************************)
(* Claims about App's navigation, caught set and store (Spec).             *)
(***************************************************************************)
\* C2: right after a toggle whose write succeeded, whatever happened to the
\* writes before it, loadCaught reads back from the store exactly the
\* members of the caught set held in memory.
C2_StoreMatchesCaughtAfterWrite ==
    (lastOp.op = "toggle" /\ lastOp.ok) =>
        LET back == loadCaught(storage)
        IN ~back.threw /\ SameMembers(back.val, caught)

\* a successful write of two members made while the store held a record
\* other than the text of the caught set (an earlier write had failed)
C2_Witness ==
    /\ lastOp.op = "toggle" /\ lastOp.ok /\ lastOp.lag
    /\ Len(caught) = 2
    /\ storage.present

\* C3 as stated: selectedIndex lies in [0, itemCount - 1] in every state,
\* for every itemCount, 0 included.
C3_IndexWithinItems == selectedIndex \in 0..(Len(items) - 1)

\* C3 as amended: selectedIndex lies in [0, itemCount - 1] whenever the
\* catalog holds an item, and is 0 while it holds none.
C3_IndexClamped ==
    /\ selectedIndex >= 0
    /\ selectedIndex <= Max(0, Len(items) - 1)

\* Next was pressed on the last of three items
C3_Witness ==
    /\ lastOp = Op("move", 1, TRUE)
    /\ Len(items) = 3
    /\ selectedIndex = 2

\* C4: a toggle of index i makes i a member exactly when it was none, and
\* leaves the membership of every other value as it was.
C4_ToggleFlips ==
    [][lastOp'.op = "toggle" =>
          LET i == Num(lastOp'.arg)
          IN /\ SetHas(caught', i) <=> ~SetHas(caught, i)
             /\ \A x \in (Range(caught) \cup Range(caught')) \ {i} :
                    SetHas(caught', x) <=> SetHas(caught, x)]_vars

\* a toggle has removed an index from a set that keeps another member
C4_Witness ==
    /\ lastOp.op = "toggle"
    /\ ~SetHas(caught, Num(lastOp.arg))
    /\ caught # <<>>

\* C7: a toggle whose write fails lets no exception out, flips the index
\* in the caught set in memory, and leaves the store as it was.
C7_FailedWriteIsSoft ==
    [][(lastOp'.op = "toggle" /\ ~lastOp'.ok) =>
          /\ ~thrown'
          /\ storage' = storage
          /\ SetHas(caught', Num(lastOp'.arg)) <=> ~SetHas(caught, Num(lastOp'.arg))]_vars

\* a write failed for lack of room while the store held an earlier set
C7_Witness ==
    /\ lastOp.op = "toggle" /\ ~lastOp.ok
    /\ ~storage.denied /\ storage.present
    /\ ~SameMembers(loadCaught(storage).val, caught)

InitStorage ==
    /\ InitNav
    /\ caught = <<>>
    /\ thrown = FALSE
    /\ lastOp = Op("init", 0, TRUE)
    /\ output = Returned(<<>>)
    /\ \E smp \in StorageSamples, S \in OrderedSets(StorageIds, MaxSetLen) :
          /\ storage = smp.store
          /\ input = [set |-> NumSeq(S), kind |-> smp.kind]

\* saveCaught(input.set)
Save(quotaExceeded) ==
    /\ LET r == saveCaught(storage, input.set, quotaExceeded)
       IN /\ storage' = r.val
          /\ thrown' = (thrown \/ r.threw)
    /\ input' = [input EXCEPT !.kind = IF storage.denied \/ quotaExceeded
                                       THEN @ ELSE "array"]
    /\ lastOp' = Op("save", 0, ~(storage.denied \/ quotaExceeded))
    /\ UNCHANGED <<items, loading, selectedIndex, view, caught, listReq, panel,
                   effects, output>>
    /\ UNCHANGED detailVars

\* loadCaught(); lastOp.ok: it follows a saveCaught that succeeded
Load ==
    /\ output' = loadCaught(storage)
    /\ thrown' = (thrown \/ output'.threw)
    /\ lastOp' = Op("load", 0, lastOp.op = "save" /\ lastOp.ok)
    /\ UNCHANGED <<items, loading, selectedIndex, view, caught, listReq, panel,
                   effects, storage, input>>
    /\ UNCHANGED detailVars

NextStorage ==
    \/ \E q \in BOOLEAN : Save(q)
    \/ Load

SpecStorage == InitStorage /\ [][NextStorage]_vars

\* C5: loadCaught after a saveCaught(S) that succeeded returns a Set with
\* exactly the members of S, each once, for every Set S of positive
\* integers, the empty one included.
C5_RoundTrip ==
    (lastOp.op = "load" /\ lastOp.ok) =>
        /\ ~output.threw
        /\ SameMembers(output.val, input.set)
        /\ Len(output.val) = Len(input.set)

\* a Set of two indices, one of several digits, was saved and read back
C5_Witness ==
    /\ lastOp.op = "load" /\ lastOp.ok
    /\ Len(input.set) = 2
    /\ Num(123) \in Range(input.set)

\* C6: loadCaught never throws, and returns the empty Set when the record
\* is absent, cannot be read, is no JSON text, or is JSON for something
\* that is no array.
C6_LoadFailsSoft ==
    lastOp.op = "load" =>
        /\ ~output.threw
        /\ ~thrown
        /\ input.kind \in {"absent", "unreadable", "malformed", "notarray"}
              => output.val = <<>>

\* loadCaught has run on a record that is no JSON text
C6_Witness ==
    /\ lastOp.op = "load"
    /\ input.kind = "malformed"
    /\ storage.present /\ storage.raw # <<>>

(***************************************************************************)
(* SpecNorm: normalizeEncounterData applied to bounded inputs.             *)
(* input: the array of rows; output: the EncounterMap.                     *)
(***************************************************************************)
\* version names: two with labels of their own and two, "x-2" and "x_2",
\* that titleCase gives the one label "X 2"
NormVersions == { <<"x">>, <<"y">>, <<"x", "-", "2">>, <<"x", "_", "2">> }

\* the version_details of a row: none, one entry (its name missing in one
\* case), two entries
NormDetails ==
    {<<>>, << <<>> >>}
        \cup {<<v>> : v \in NormVersions}
        \cup {<<v, w>> : v, w \in { <<"x">>, <<"x", "-", "2">>, <<"x", "_", "2">> }}

\* location names, <<>> for a row without one
NormLocations == { <<>>, <<"a">>, <<"b">> }

NormRows == [loc : NormLocations, vds : NormDetails]

RECURSIVE SeqsUpTo(_, _)
SeqsUpTo(S, n) ==
    IF n = 0 THEN {<<>>}
    ELSE LET shorter == SeqsUpTo(S, n - 1)
         IN shorter \cup {Append(s, x) : s \in shorter, x \in S}

InitNorm ==
    /\ InitNav
    /\ caught = <<>>
    /\ storage = Absent(FALSE)
    /\ thrown = FALSE
    /\ lastOp = Op("init", 0, TRUE)
    /\ output = EmptyEncounterMap
    /\ input \in SeqsUpTo(NormRows, MaxRows)

Normalize ==
    /\ lastOp.op = "init"
    /\ output' = normalizeEncounterData(input)
    /\ lastOp' = Op("normalize", 0, TRUE)
    /\ UNCHANGED <<items, loading, selectedIndex, view, caught, storage, thrown,
                   listReq, panel, effects, input>>
    /\ UNCHANGED detailVars

NextNorm == Normalize

SpecNorm == InitNorm /\ [][NextNorm]_vars

\* the orders of a sequence
SeqPerms(s) ==
    { [i \in 1..Len(s) |-> s[f[i]]] :
        f \in {g \in [1..Len(s) -> 1..Len(s)] : \A i, j \in 1..Len(s) : g[i] = g[j] => i = j} }

\* the arrays that hold the rows of encArr in some order, each with its
\* version_details in some order
Reorderings(encArr) ==
    UNION { { t \in [1..Len(encArr) -> NormRows] :
                \A i \in 1..Len(encArr) :
                    /\ t[i].loc = r[i].loc
                    /\ t[i].vds \in SeqPerms(r[i].vds) } : r \in SeqPerms(encArr) }

\* the location names the input gives together with version v
LocationsWith(encArr, v) ==
    { encArr[i].loc : i \in { k \in 1..Len(encArr) :
                                ~Falsy(encArr[k].loc) /\ v \in Range(encArr[k].vds) } }

\* the version names the input gives together with a location
VersionsMet(encArr) ==
    { v \in NormVersions : LocationsWith(encArr, v) # {} }

\* C8: the EncounterMap is the same for every order of the rows and of
\* each row's version_details, the order of its versions list included.
C8_OrderIndependent ==
    lastOp.op = "normalize" =>
        \A t \in Reorderings(input) : normalizeEncounterData(t) = output

\* C9: the versions of the map are those met with a location; the list of
\* each holds exactly the locations met with it, each once, in ascending
\* order of their code units.
C9_LocationsDistinctSorted ==
    lastOp.op = "normalize" =>
        /\ Range(output.versions) = VersionsMet(input)
        /\ Len(output.byVersion) = Len(output.versions)
        /\ \A i \in 1..Len(output.byVersion) :
              LET e == output.byVersion[i]
              IN /\ e.v = output.versions[i]
                 /\ Range(e.locs) = LocationsWith(input, e.v)
                 /\ \A j, k \in 1..Len(e.locs) :
                       j < k => CodeUnitLess(e.locs[j], e.locs[k])

\* location "b" came before "a" for one version, and the row of "b" names
\* that version twice
C9_Witness ==
    /\ lastOp.op = "normalize"
    /\ input = << [loc |-> <<"b">>, vds |-> << <<"x">>, <<"x">> >>],
                  [loc |-> <<"a">>, vds |-> << <<"x">> >>] >>
    /\ output.versions = << <<"x">> >>

(***************************************************************************)
(* SpecFilter: ListView's filtered list for bounded inputs.                *)
(* input = [items, q, mode, caughtSet]; output: the filtered items.        *)
(***************************************************************************)
\* String.prototype.trim
RECURSIVE TrimStart(_)
TrimStart(s) == IF s # <<>> /\ IsSpace(Head(s)) THEN TrimStart(Tail(s)) ELSE s

RECURSIVE TrimEnd(_)
TrimEnd(s) ==
    IF s # <<>> /\ IsSpace(s[Len(s)]) THEN TrimEnd(SubSeq(s, 1, Len(s) - 1)) ELSE s

trim(s) == TrimEnd(TrimStart(s))

\* the first filter of ListView: the query
MatchesQueryNoLowerCase(p, q) ==
    LET query == trim(q)
    IN query = <<>> \/ includes(p.name, query) \/ includes(DecimalString(p.id), query)

MatchesQuery(p, q) ==
    LET query == toLowerCase(trim(q))
    IN query = <<>> \/ includes(p.name, query) \/ includes(DecimalString(p.id), query)

\* the mode filter with its last two returns exchanged
MatchesModeSwapped(p, mode, caughtSet) ==
    LET isCaught == SetHas(caughtSet, Num(p.id))
    IN IF mode = "all" THEN TRUE
       ELSE IF mode = "caught" THEN ~isCaught
       ELSE isCaught

\* the second filter of ListView: the mode
MatchesMode(p, mode, caughtSet) ==
    LET isCaught == SetHas(caughtSet, Num(p.id))
    IN IF mode = "all" THEN TRUE
       ELSE IF mode = "caught" THEN isCaught
       ELSE ~isCaught

filtered(its, q, mode, caughtSet) ==
    SelectSeq(SelectSeq(its, LAMBDA p : MatchesQuery(p, q)),
              LAMBDA p : MatchesMode(p, mode, caughtSet))

\* names the catalog may give, one of them with a capital
ListNames ==
    << <<"m", "e", "w">>, <<"A", "b", "r", "a">>, <<"m", "r", "-", "m", "i", "m", "e">>,
       <<"m", "u", "k">>, <<"n", "a", "t", "u">>, <<"x", "a", "t", "u">> >>

NameOf(id) == ListNames[((id - 1) % Len(ListNames)) + 1]

\* items.map((p) => ({ id: p.id, name: p.name, ... })) for a catalog of n
ListItems(n) == [i \in 1..n |-> [id |-> i, name |-> NameOf(i)]]

ListQueries ==
    { <<>>, <<" ">>, <<"m", "e">>, <<"M", "E">>, <<" ", "m", "e", " ">>, <<"m", " ", "e">>,
      <<"a", "b">>, <<"A", "b">>, <<"a", "t", "u">>, <<"-", "m">>, <<"1">>, <<"2">>,
      <<"1", "2">>, <<"1", " ">>, <<"7">>, <<"z">> }

ListCaughtSets ==
    { <<>>, <<Num(1)>>, <<Num(3)>>, <<Num(12), Num(2)>>, <<Num(3), Num(1), Num(2)>> }

MaxListed == 12

InitFilter ==
    /\ InitNav
    /\ caught = <<>>
    /\ storage = Absent(FALSE)
    /\ thrown = FALSE
    /\ lastOp = Op("init", 0, TRUE)
    /\ output = <<>>
    /\ \E n \in {0, 3, MaxListed}, q \in ListQueries,
          mode \in {"all", "missing", "caught"}, c \in ListCaughtSets :
          input = [items |-> ListItems(n), q |-> q, mode |-> mode, caughtSet |-> c]

Filter ==
    /\ lastOp.op = "init"
    /\ output' = filtered(input.items, input.q, input.mode, input.caughtSet)
    /\ lastOp' = Op("filter", 0, TRUE)
    /\ UNCHANGED <<items, loading, selectedIndex, view, caught, storage, thrown,
                   listReq, panel, effects, input>>
    /\ UNCHANGED detailVars

NextFilter == Filter

SpecFilter == InitFilter /\ [][NextFilter]_vars

Kept(p) == p \in Range(output)

\* C10 as stated: with a non-empty query an item is kept (among those the
\* mode admits) exactly when the query is, letter case apart, a substring
\* of its name, or a substring of its index in decimal.
C10_CaseInsensitiveMatch ==
    (lastOp.op = "filter" /\ input.q # <<>>) =>
        \A i \in 1..Len(input.items) :
            LET p == input.items[i]
            IN Kept(p) <=>
                 /\ MatchesMode(p, input.mode, input.caughtSet)
                 /\ \/ includes(toLowerCase(p.name), toLowerCase(input.q))
                    \/ includes(DecimalString(p.id), input.q)

\* C10 as amended: with a query that is non-empty once trimmed, an item is
\* kept (among those the mode admits) exactly when the query, trimmed and
\* in lower case, is a substring of its name as the catalog gives it or of
\* its index in decimal; a query of white space alone keeps every item the
\* mode admits; the letter case of the query changes nothing.
C10_TrimmedLowerCaseMatch ==
    lastOp.op = "filter" =>
        /\ \A i \in 1..Len(input.items) :
              LET p == input.items[i]
                  query == toLowerCase(trim(input.q))
              IN Kept(p) <=>
                   /\ MatchesMode(p, input.mode, input.caughtSet)
                   /\ \/ query = <<>>
                      \/ includes(p.name, query)
                      \/ includes(DecimalString(p.id), query)
        /\ \A q2 \in ListQueries :
              toLowerCase(q2) = toLowerCase(input.q) =>
                  filtered(input.items, q2, input.mode, input.caughtSet) = output

\* the query "ME" has kept "mew" and "mr-mime" out of twelve missing items
C10_Witness ==
    /\ lastOp.op = "filter"
    /\ input.q = <<"M", "E">>
    /\ input.mode = "missing" /\ input.caughtSet = <<Num(1)>>
    /\ Len(input.items) = 12
    /\ {p.id : p \in Range(output)} = {3, 7, 9}

\* the position of item p in the input
PositionOf(p) == CHOOSE i \in 1..Len(input.items) : input.items[i] = p

\* C11: with the empty query the filter returns, in the order of the
\* input and each once, the items whose index is not in the caught set in
\* mode Missing, those whose index is in it in mode Caught, and every item
\* in mode All; Missing and Caught share no item and together give All.
C11_ModePartition ==
    (lastOp.op = "filter" /\ input.q = <<>>) =>
        /\ \A i \in 1..Len(input.items) :
              LET p == input.items[i]
                  member == Num(p.id) \in Range(input.caughtSet)
              IN Kept(p) <=> CASE input.mode = "all" -> TRUE
                               [] input.mode = "caught" -> member
                               [] input.mode = "missing" -> ~member
        /\ Range(output) \subseteq Range(input.items)
        /\ \A j, k \in 1..Len(output) :
              j < k => PositionOf(output[j]) < PositionOf(output[k])
        /\ LET of(mode) == Range(filtered(input.items, <<>>, mode, input.caughtSet))
           IN /\ of("missing") \cap of("caught") = {}
              /\ of("missing") \cup of("caught") = of("all")
              /\ of("all") = Range(input.items)

\* items 1, 2, 3 with caught set {3}, mode Missing: items 1 and 2, in order
C11_Witness ==
    /\ lastOp.op = "filter"
    /\ input.q = <<>> /\ input.mode = "missing"
    /\ input.caughtSet = <<Num(3)>>
    /\ Len(input.items) = 3
    /\ [i \in 1..Len(output) |-> output[i].id] = <<1, 2>>

\* C12: jumpToId(id) leaves selectedIndex and view as they are when no item
\* has that id; when an item has it, view becomes "dex" and selectedIndex
\* the position of that item. Either way caught and items are unchanged.
C12_JumpFrame ==
    [][lastOp'.op = "jump" =>
          LET id == lastOp'.arg
              present == \E i \in 1..Len(items) : items[i].id = id
          IN /\ ~present => (selectedIndex' = selectedIndex /\ view' = view)
             /\ present => /\ view' = "dex"
                           /\ selectedIndex' \in 0..(Len(items) - 1)
                           /\ items[selectedIndex' + 1].id = id
             /\ caught' = caught
             /\ items' = items]_vars

\* a jump to item 3 from the list, with a caught set that is not empty
C12_Witness ==
    /\ lastOp.op = "jump" /\ lastOp.arg = 3 /\ lastOp.ok
    /\ view = "dex"
    /\ selectedIndex = 2
    /\ Len(items) = 3
    /\ caught # <<>>

(***************************************************************************)
(* bestEnglishFlavor: the description shown for a species                  *)
(***************************************************************************)

\* flavor_text.replace(/\s+/g, " "): every maximal run of white space
\* becomes one space
RECURSIVE CollapseSpace(_)
CollapseSpace(s) ==
    IF s = <<>> THEN <<>>
    ELSE IF IsSpace(Head(s)) THEN <<" ">> \o CollapseSpace(TrimStart(s))
    ELSE <<Head(s)>> \o CollapseSpace(Tail(s))

\* the hard-coded order of preference of bestEnglishFlavor
preferred ==
    << "scarlet", "violet", "sword", "shield", "legends-arceus",
       "brilliant-diamond", "shining-pearl" >>

\* Array.prototype.find over the English entries: the index of the first
\* entry of version p, 0 when there is none
FindVersion(en, p) ==
    IF \E i \in 1..Len(en) : en[i].version = p
    THEN CHOOSE i \in 1..Len(en) :
             en[i].version = p /\ \A j \in 1..(i - 1) : en[j].version # p
    ELSE 0

\* bestEnglishFlavor with its fallback taking the first English entry
bestEnglishFlavorFirst(species) ==
    LET entries == species.flavor_text_entries
        en == SelectSeq(entries, LAMBDA e : e.language = "en")
        hits == {k \in 1..Len(preferred) : FindVersion(en, preferred[k]) > 0}
    IN IF Len(en) = 0 THEN <<>>
       ELSE IF hits # {}
       THEN LET p == preferred[CHOOSE k \in hits : \A h \in hits : k <= h]
            IN trim(CollapseSpace(en[FindVersion(en, p)].flavor_text))
       ELSE trim(CollapseSpace(en[1].flavor_text))

\* bestEnglishFlavor(species). An entry is [language, version, flavor_text]:
\* language and version stand for e.language?.name and e.version?.name, with
\* "undefined" for a null language or version. The loop over preferred
\* returns at the first preferred name that find() hits.
bestEnglishFlavor(species) ==
    LET entries == species.flavor_text_entries
        en == SelectSeq(entries, LAMBDA e : e.language = "en")
        hits == {k \in 1..Len(preferred) : FindVersion(en, preferred[k]) > 0}
    IN IF Len(en) = 0 THEN <<>>
       ELSE IF hits # {}
       THEN LET p == preferred[CHOOSE k \in hits : \A h \in hits : k <= h]
            IN trim(CollapseSpace(en[FindVersion(en, p)].flavor_text))
       ELSE trim(CollapseSpace(en[Len(en)].flavor_text))

\* the entries a species is given: English ones of two preferred versions
\* (one of them twice), of a version that is not preferred and of no
\* version, and entries that are not English
FlavorEntries ==
    { [language |-> "en", version |-> "sword", flavor_text |-> <<"a", "\n", "b">>],
      [language |-> "en", version |-> "sword", flavor_text |-> <<"c">>],
      [language |-> "en", version |-> "scarlet",
       flavor_text |-> <<" ", "d", " ", "\f", "e", " ">>],
      [language |-> "ja", version |-> "scarlet", flavor_text |-> <<"f">>],
      [language |-> "en", version |-> "red", flavor_text |-> <<"g", "\t", " ", "h">>],
      [language |-> "en", version |-> "undefined", flavor_text |-> <<"i">>],
      [language |-> "undefined", version |-> "violet", flavor_text |-> <<"j">>] }

MaxEntries == 3

InitFlavor ==
    /\ InitNav
    /\ caught = <<>>
    /\ storage = Absent(FALSE)
    /\ thrown = FALSE
    /\ lastOp = Op("init", 0, TRUE)
    /\ output = <<>>
    /\ \E s \in SeqsUpTo(FlavorEntries, MaxEntries) : input = [flavor_text_entries |-> s]

\* the memo of DexSidePanel: flavor = bestEnglishFlavor(species)
Flavor ==
    /\ lastOp.op = "init"
    /\ output' = bestEnglishFlavor(input)
    /\ lastOp' = Op("flavor", 0, TRUE)
    /\ UNCHANGED <<items, loading, selectedIndex, view, caught, storage, thrown,
                   listReq, panel, effects, input>>
    /\ UNCHANGED detailVars

NextFlavor == Flavor

SpecFlavor == InitFlavor /\ [][NextFlavor]_vars

\* the positions of the English candidates of the input
English ==
    {i \in 1..Len(input.flavor_text_entries) :
        input.flavor_text_entries[i].language = "en"}

\* the places of the preference list that some English candidate matches
Matched ==
    {k \in 1..Len(preferred) :
        \E i \in English : input.flavor_text_entries[i].version = preferred[k]}

\* the candidate the description comes from: the first English candidate of
\* the earliest matched preferred version, else the last English candidate
Candidate ==
    IF Matched # {}
    THEN LET k == CHOOSE m \in Matched : \A h \in Matched : m <= h
             of == {i \in English : input.flavor_text_entries[i].version = preferred[k]}
         IN CHOOSE i \in of : \A j \in of : i <= j
    ELSE CHOOSE i \in English : \A j \in English : j <= i

MergeFull(prev, idx, id) ==
    [i \in 1..Max(Len(prev), idx + 1) |->
        IF i = idx + 1 THEN [id |-> id, types |-> TRUE] ELSE ItemAt(prev, i - 1)]

\* the cleanup of the effect: alive = false in the run it belongs to
DetailCleanup(runs) == [k \in 1..Len(runs) |-> [runs[k] EXCEPT !.alive = FALSE]]

\* the detail effect without its test of cur.types
DetailEffectNoTypesCheck(its, idx, runs) ==
    LET cur == ItemAt(its, idx)
    IN IF Len(its) = 0 \/ cur.id = 0
       THEN DetailCleanup(runs)
       ELSE Append(DetailCleanup(runs), [id |-> cur.id, idx |-> idx, alive |-> TRUE])

\* the detail effect, run when items or selectedIndex has changed: the
\* cleanup of the run before, then nothing when items is empty, when
\* items[selectedIndex] is undefined or when it has types, and otherwise a
\* new run that awaits fetchPokemon(cur.id)
DetailEffect(its, idx, runs) ==
    LET cur == ItemAt(its, idx)
    IN IF Len(its) = 0 \/ cur.id = 0 \/ cur.types
       THEN DetailCleanup(runs)
       ELSE Append(DetailCleanup(runs), [id |-> cur.id, idx |-> idx, alive |-> TRUE])

\* the render that follows a handler: the effect runs when one of its
\* dependencies [items, selectedIndex] has changed
DetailRerendered ==
    /\ fetches' = IF items' # items \/ selectedIndex' # selectedIndex
                  THEN DetailEffect(items', selectedIndex', fetches)
                  ELSE fetches
    /\ Len(fetches') <= MaxInFlight
    /\ UNCHANGED <<panel, effects, failedIds, merged>>

\* fetchPokemon resolves (ok) or rejects for the effect run k. A response
\* to a run that is still alive is merged, and the new items run the effect
\* again; a response to a run that is not alive is dropped; a rejection is
\* ignored. lastOp.lag tells that the run was no longer alive.
DetailDone(k, ok) ==
    /\ k \in 1..Len(fetches)
    /\ LET run == fetches[k]
           rest == RemoveAt(fetches, k)
       IN IF ok /\ run.alive
          THEN /\ items' = MergeFull(items, run.idx, run.id)
               /\ fetches' = DetailEffect(items', selectedIndex, rest)
               /\ merged' = [merged EXCEPT ![run.id] = @ + 1]
               /\ UNCHANGED failedIds
          ELSE /\ fetches' = rest
               /\ failedIds' = IF ok THEN failedIds ELSE failedIds \cup {run.id}
               /\ UNCHANGED <<items, merged>>
    /\ lastOp' = [Op("detail", fetches[k].id, ok) EXCEPT !.lag = ~fetches[k].alive]
    /\ UNCHANGED <<loading, selectedIndex, view, caught, storage, thrown, listReq,
                   panel, effects, input, output>>

InitDetail == Init /\ storage = Absent(FALSE)

\* App with its detail effect: navigation and the enrichment of items
NextDetail ==
    \/ \E n \in 0..MaxItems : ListLoaded(n) /\ DetailRerendered
    \/ ListFailed /\ DetailRerendered
    \/ \E delta \in {-1, 1} : MoveSelection(delta) /\ DetailRerendered
    \/ \E idx \in 0..(MaxItems - 1) : CarouselSelect(idx) /\ DetailRerendered
    \/ \E v \in {"dex", "list"} : SetView(v) /\ DetailRerendered
    \/ \E id \in 1..(MaxItems + 1) : JumpToId(id) /\ DetailRerendered
    \/ \E k \in 1..MaxInFlight, ok \in BOOLEAN : DetailDone(k, ok)

SpecDetail == InitDetail /\ [][NextDetail]_vars

\* the step has started a run of fetchPokemon: after a handler the runs
\* have changed and the last is alive; after a merge the last is alive
Issued ==
    /\ fetches' # <<>>
    /\ fetches'[Len(fetches')].alive
    /\ IF lastOp'.op = "detail" THEN lastOp'.ok /\ ~lastOp'.lag ELSE fetches' # fetches

\* C14: when fetchPokemon succeeds for an item that is no longer the
\* selected one, the response is still merged into that item at its own
\* position: it has types afterwards, and no other item is changed.
C14_StaleResultApplied ==
    [][(/\ lastOp'.op = "detail" /\ lastOp'.ok
        /\ findIndex(items, lastOp'.arg) # selectedIndex) =>
          LET pos == findIndex(items, lastOp'.arg) + 1
          IN /\ Len(items') = Len(items)
             /\ items'[pos].types
             /\ \A i \in 1..Len(items) : i # pos => items'[i] = items[i]]_vars

\* C15: an item whose fetchPokemon has rejected never has types afterwards,
\* and no step starts another fetchPokemon for it.
C15_FailedStaysStub ==
    [][/\ \A id \in failedIds' : ~ItemAt(items', findIndex(items', id)).types
       /\ Issued => fetches'[Len(fetches')].id \notin failedIds]_vars

\* C16: a run of fetchPokemon is started only for the selected item and
\* only while it has no types; a response is merged only into an item that
\* has no types, which then has them; an item that has types is never
\* changed again; so no item receives two responses.
C16_EnrichedOnce ==
    [][/\ Issued =>
            LET run == fetches'[Len(fetches')]
                cur == ItemAt(items', selectedIndex')
            IN /\ run.idx = selectedIndex'
               /\ run.id = cur.id /\ cur.id # 0
               /\ ~cur.types
               /\ findIndex(items, run.id) >= 0 =>
                      ~ItemAt(items, findIndex(items, run.id)).types
       /\ \A id \in DOMAIN merged :
            merged'[id] # merged[id] =>
                LET idx == findIndex(items, id)
                IN /\ idx >= 0
                   /\ ~ItemAt(items, idx).types
                   /\ ItemAt(items', idx).types
       /\ \A i \in 1..Len(items) :
            items[i].types => (i <= Len(items') /\ items'[i] = items[i])
       /\ \A id \in DOMAIN merged : merged'[id] <= 1]_vars

\* items 1 and 2 have received their details, and Next has then selected
\* item 2 again: no run of fetchPokemon is started
C16_Witness ==
    /\ lastOp.op = "move" /\ lastOp.arg = 1
    /\ selectedIndex = 1
    /\ Len(items) = 3
    /\ merged[1] = 1 /\ merged[2] = 1 /\ merged[3] = 0
    /\ items[1].types /\ items[2].types
    /\ fetches = <<>>

\* C17: the selected version of the detail panel is always null or one of
\* the versions of the encounter map the panel holds (none while it holds
\* no map); and a step in which an encounter load reaches the panel leaves
\* it the first version of the loaded map, null when the map has none.
C17_SelectedVersionHeld ==
    /\ [](\/ panel.selectedVersion = <<>>
          \/ /\ panel.mounted /\ panel.enc.set
             /\ panel.selectedVersion \in Range(panel.enc.map.versions))
    /\ [][(lastOp'.op = "encounters" /\ panel' # panel) =>
             LET versions == panel'.enc.map.versions
             IN /\ panel'.enc.set
                /\ panel'.selectedVersion =
                       IF versions = <<>> THEN <<>> ELSE versions[1]
                /\ \A i \in 1..Len(versions) :
                       localeCompare(versionLabel(versions[1]),
                                     versionLabel(versions[i])) <= 0]_vars

\* after a click on the second version of a loaded map of two versions
C17_Witness ==
    /\ lastOp.op = "version"
    /\ panel.mounted /\ panel.enc.set
    /\ Len(panel.enc.map.versions) = 2
    /\ panel.selectedVersion = panel.enc.map.versions[2]

====
